---------------------------- MODULE Spec2Model ----------------------------
(***************************************************************************)
(* Model of the animation subsystem of Munny: the easing functions, the    *)
(* Animation base class, the primitive transform animations, the Sequence  *)
(* and Parallel combinators, and a driver that takes one animation tree    *)
(* through setDuration / setup / tick / cleanup.                           *)
(*                                                                         *)
(* Numbers.  The program computes in IEEE doubles.  The model computes in  *)
(* exact rationals <<n, d>> (d > 0, lowest terms), so it follows the       *)
(* program wherever the program's arithmetic is exact and does not show    *)
(* floating-point rounding.  Math.exp, Math.pow and Math.sin are library   *)
(* functions: the model tabulates them in thousandths at the arguments     *)
(* that belong to t = k/8, and an argument between two of these takes the  *)
(* table's entry at the grid point below it.                               *)
(***************************************************************************)
EXTENDS Integers, Sequences, FiniteSets, TLC

(***************************************************************************)
(* Rational arithmetic                                                     *)
(***************************************************************************)
Abs(x) == IF x < 0 THEN -x ELSE x

RECURSIVE GCD(_, _)
GCD(a, b) == IF b = 0 THEN a ELSE GCD(b, a % b)

\* n/d in lowest terms with a positive denominator (d # 0).
Rat(n, d) ==
    LET s == IF d < 0 THEN -1 ELSE 1
        g == GCD(Abs(n), Abs(d))
    IN  <<(s * n) \div g, (s * d) \div g>>

R(n) == <<n, 1>>
\* The program passes numbers by value: an operand is computed before the
\* operation is applied to it (x, y are the values of the operands a, b).
\* Sums go through the least common denominator.
RAddOver(a, b, g) == Rat(a[1] * (b[2] \div g) + b[1] * (a[2] \div g), (a[2] \div g) * b[2])
RAdd(a, b) == CHOOSE r \in {RAddOver(x, y, GCD(x[2], y[2])) : x \in {a}, y \in {b}} : TRUE
RSub(a, b) == RAdd(a, <<-b[1], b[2]>>)
RMulOver(a, b, g1, g2) == Rat((a[1] \div g1) * (b[1] \div g2), (a[2] \div g2) * (b[2] \div g1))
RMul(a, b) ==
    CHOOSE r \in {RMulOver(x, y, GCD(Abs(x[1]), y[2]), GCD(Abs(y[1]), x[2])) : x \in {a}, y \in {b}} : TRUE
RInv(a) == CHOOSE r \in {Rat(x[2], x[1]) : x \in {a}} : TRUE
RDiv(a, b) == RMul(a, RInv(b))
\* a/b < c/d for b, d > 0, by the integer parts and then the reciprocals of
\* the fractional parts (no products, so no overflow).
RECURSIVE FracLt(_, _, _, _)
FracLt(a, b, c, d) ==
    IF a \div b # c \div d THEN a \div b < c \div d
    ELSE IF c % d = 0 THEN FALSE
    ELSE IF a % b = 0 THEN TRUE
    ELSE FracLt(d, c % d, b, a % b)
RLt(a, b) == \E x \in {a}, y \in {b} : FracLt(x[1], x[2], y[1], y[2])
RLe(a, b) == ~RLt(b, a)
RGt(a, b) == RLt(b, a)
RGe(a, b) == RLe(b, a)
\* a * b < 1/1000000 for a, b > 0.  A product whose denominator is beyond the
\* model's integers (2^31 - 1) while its numerator is at most 2147 is below
\* 1/1000000 and is never formed.
BelowMillionth(a, b) ==
    LET g1 == GCD(a[1], b[2])
        g2 == GCD(b[1], a[2])
        n == (a[1] \div g1) * (b[1] \div g2)
    IN  IF (a[2] \div g2) > 2147483647 \div (b[2] \div g1)
        THEN n <= 2147
        ELSE FracLt(n, (a[2] \div g2) * (b[2] \div g1), 1, 1000000)
RMax(a, b) == IF RGt(a, b) THEN a ELSE b
RMin(a, b) == IF RLt(a, b) THEN a ELSE b
\* Math.floor and Math.round (round half up) of a rational, as integers.
RFloor(a) == a[1] \div a[2]
Math_round(a) == (2 * a[1] + a[2]) \div (2 * a[2])

(***************************************************************************)
(* core/math.ts                                                            *)
(***************************************************************************)
clamp(x, min, max) == IF RLt(x, min) THEN min ELSE IF RGt(x, max) THEN max ELSE x

lerp(a, b, t) == RAdd(a, RMul(RSub(b, a), t))

\* mixVec2(out, a, b, t) writes out[0] = lerp(a[0], b[0], t), out[1] = lerp(a[1], b[1], t);
\* the animations that call it pass the two components on to the setter.

(***************************************************************************)
(* core/easing.ts                                                          *)
(***************************************************************************)
\* Grid of the tabulated library functions: arguments belonging to t = k/8.
GridIndex(t) == RFloor(RMul(t, R(8)))

\* Math.exp(-6 * t), in thousandths, at t = k/8 (index k + 1).
ExpTable == <<1000, 472, 223, 105, 50, 24, 11, 5, 2>>
Math_exp_neg6(t) == Rat(ExpTable[GridIndex(t) + 1], 1000)

\* Math.pow(2, 10 * t - 10), in thousandths, at t = k/8.
PowTable == <<1, 2, 6, 13, 31, 74, 177, 420, 1000>>
Math_pow2(t) == Rat(PowTable[GridIndex(t) + 1], 1000)

\* Math.sin((t * 10 - 10.75) * c4) with c4 = 2*PI/3, in thousandths, at t = k/8.
SinTable == <<500, -866, 1000, -866, 500, 0, -500, 866, -1000>>
Math_sin_c4(t) == Rat(SinTable[GridIndex(t) + 1], 1000)

EasingNames == {"linear", "easeIn", "easeOut", "easeInOut", "elastic", "bounce", "spring"}

linear(t) == t

easeIn(t) == RMul(t, t)

easeOut(t) == RSub(R(1), RMul(RSub(R(1), t), RSub(R(1), t)))

easeInOut(t) ==
    IF RLt(t, Rat(1, 2))
    THEN RMul(R(2), RMul(t, t))
    ELSE LET u == RAdd(RMul(R(-2), t), R(2))
         IN  RSub(R(1), RDiv(RMul(u, u), R(2)))

elastic(t) ==
    IF t = R(0) \/ t = R(1)
    THEN t
    ELSE RAdd(RMul(RSub(R(0), Math_pow2(t)), Math_sin_c4(t)), R(1))

\* n1 = 7.5625 = 121/16, d1 = 2.75 = 11/4.
bounce(t) ==
    LET n1 == Rat(121, 16)
        d1 == Rat(11, 4)
        seg(u, c) == RAdd(RMul(n1, RMul(u, u)), c)
    IN  IF RLt(t, RDiv(R(1), d1)) THEN seg(t, R(0))
        ELSE IF RLt(t, RDiv(R(2), d1))
             THEN seg(RSub(t, RDiv(Rat(3, 2), d1)), Rat(3, 4))
        ELSE IF RLt(t, RDiv(Rat(5, 2), d1))
             THEN seg(RSub(t, RDiv(Rat(9, 4), d1)), Rat(15, 16))
        ELSE seg(RSub(t, RDiv(Rat(21, 8), d1)), Rat(63, 64))

spring(t) ==
    LET s == RSub(R(1), RMul(Math_exp_neg6(t), RAdd(R(1), RMul(R(6), t))))
    IN  IF RLt(s, R(0)) THEN R(0) ELSE IF RGt(s, R(1)) THEN R(1) ELSE s

\* EASINGS.get(name) ?? linear
getEasing(name, t) ==
    CASE name = "linear" -> linear(t)
      [] name = "easeIn" -> easeIn(t)
      [] name = "easeOut" -> easeOut(t)
      [] name = "easeInOut" -> easeInOut(t)
      [] name = "elastic" -> elastic(t)
      [] name = "bounce" -> bounce(t)
      [] name = "spring" -> spring(t)
      [] OTHER -> linear(t)

\* Animation.ease: clamp tNorm to [0,1], then apply the easing.
ease(easing, tNorm) ==
    getEasing(easing, IF RLt(tNorm, R(0)) THEN R(0) ELSE IF RGt(tNorm, R(1)) THEN R(1) ELSE tNorm)

(***************************************************************************)
(* Colors (animation/transforms/style.ts).  A ColorString is modelled as   *)
(* the sequence of its characters; JavaScript's null is NullColor.         *)
(***************************************************************************)
NullColor == <<"null">>

Str6(a, b, c, d, e, f) == <<"#", a, b, c, d, e, f>>
Str8(a, b, c, d, e, f, g, h) == <<"#", a, b, c, d, e, f, g, h>>

\* `cur ? ... : null` and `!color`: null and the empty string are falsy.
Falsy(color) == color = NullColor \/ color = <<>>

\* Value of one hexadecimal digit, -1 for any other character.
HexVal(c) ==
    CASE c = "0" -> 0 [] c = "1" -> 1 [] c = "2" -> 2 [] c = "3" -> 3
      [] c = "4" -> 4 [] c = "5" -> 5 [] c = "6" -> 6 [] c = "7" -> 7
      [] c = "8" -> 8 [] c = "9" -> 9
      [] c \in {"a", "A"} -> 10 [] c \in {"b", "B"} -> 11
      [] c \in {"c", "C"} -> 12 [] c \in {"d", "D"} -> 13
      [] c \in {"e", "E"} -> 14 [] c \in {"f", "F"} -> 15
      [] OTHER -> -1

\* The marker the model uses for NaN (no two-digit parse yields it).
NaN == -1000

\* Number.parseInt(s, 16) of a two-character string: the longest prefix of
\* hexadecimal digits, NaN when the first character is none.
parseInt16(s) ==
    IF HexVal(s[1]) < 0 THEN NaN
    ELSE IF HexVal(s[2]) < 0 THEN HexVal(s[1])
    ELSE 16 * HexVal(s[1]) + HexVal(s[2])

\* parseHex returns null (NoRGBA) or the tuple [r, g, b, a].
NoRGBA == <<>>

parseHex(color) ==
    IF Falsy(color) \/ color[1] # "#" THEN NoRGBA
    ELSE LET hex == SubSeq(color, 2, Len(color))
         IN  IF Len(hex) = 6 \/ Len(hex) = 8
             THEN LET r == parseInt16(SubSeq(hex, 1, 2))
                      g == parseInt16(SubSeq(hex, 3, 4))
                      b == parseInt16(SubSeq(hex, 5, 6))
                      a == IF Len(hex) = 8 THEN parseInt16(SubSeq(hex, 7, 8)) ELSE 255
                  IN  IF r = NaN \/ g = NaN \/ b = NaN \/ a = NaN
                      THEN NoRGBA
                      ELSE <<R(r), R(g), R(b), R(a)>>
             ELSE NoRGBA

\* n.toString(16).padStart(2, '0') for 0 <= n <= 255.
HexDigits == <<"0", "1", "2", "3", "4", "5", "6", "7", "8", "9", "a", "b", "c", "d", "e", "f">>
hh(n) == <<HexDigits[(n \div 16) + 1], HexDigits[(n % 16) + 1]>>

toHex(rgb) ==
    LET r == clamp(R(Math_round(rgb[1])), R(0), R(255))[1]
        g == clamp(R(Math_round(rgb[2])), R(0), R(255))[1]
        b == clamp(R(Math_round(rgb[3])), R(0), R(255))[1]
    IN  <<"#">> \o hh(r) \o hh(g) \o hh(b)

(***************************************************************************)
(* core/mobject.ts: the animated state of a Mobject and its setters.       *)
(***************************************************************************)
Mobject(position, rotation, scale, opacity, fillColor, strokeColor, strokeWidth) ==
    [position |-> position, rotation |-> rotation, scale |-> scale,
     opacity |-> opacity, fillColor |-> fillColor, strokeColor |-> strokeColor,
     strokeWidth |-> strokeWidth]

\* new Mobject(): the field initialisers.
DefaultMobject ==
    Mobject(<<R(0), R(0)>>, R(0), <<R(1), R(1)>>, R(1),
            Str6("f", "f", "f", "f", "f", "f"), Str6("0", "0", "0", "0", "0", "0"), R(1))

setPosition(m, px, py) == [m EXCEPT !.position = <<px, py>>]
setRotation(m, thetaRad) == [m EXCEPT !.rotation = thetaRad]
setScale(m, sx, sy) == [m EXCEPT !.scale = <<sx, sy>>]
setOpacity(m, alpha) ==
    [m EXCEPT !.opacity = IF RLt(alpha, R(0)) THEN R(0) ELSE IF RGt(alpha, R(1)) THEN R(1) ELSE alpha]
fill(m, color) == [m EXCEPT !.fillColor = color]
stroke(m, color) == [m EXCEPT !.strokeColor = color]
setStrokeWidth(m, width) == [m EXCEPT !.strokeWidth = width]

(***************************************************************************)
(* animation/base/animation.ts and the primitive transform animations.     *)
(* An animation object is a record; every class uses the same fields:      *)
(*   kind      the class                                                   *)
(*   target    the Mobject it animates (0: the NullMobject of a composite) *)
(*   arg       the constructor's argument (to / delta / factor / color)    *)
(*   duration  _duration            easing  _easing                        *)
(*   from, to  the private from / to (fromOpacity for FadeIn, FadeOut)     *)
(*   canLerp   FillColorTo / StrokeColorTo                                 *)
(*   children, durations, ends, started, cleaned, currentIndex,            *)
(*   baseDurations   the combinators' fields (children are node numbers)   *)
(***************************************************************************)
Vec2One == <<R(1), R(1)>>
Vec2Zero == <<R(0), R(0)>>
White == <<R(255), R(255), R(255), R(255)>>
Black == <<R(0), R(0), R(0), R(255)>>

\* 0.000001, the floor of a duration.
Epsilon == Rat(1, 1000000)

\* The field initialisers and constructor of each class.
NewAnimation(kind, target, arg) ==
    [kind |-> kind, target |-> target, arg |-> arg,
     duration |-> R(1), easing |-> "linear",
     from |-> CASE kind \in {"MoveTo", "MoveBy"} -> Vec2Zero
                [] kind \in {"ScaleTo", "ScaleBy"} -> Vec2One
                [] kind \in {"RotateTo", "RotateBy", "FadeIn"} -> R(0)
                [] kind = "FillColorTo" -> White
                [] kind = "StrokeColorTo" -> Black
                [] OTHER -> R(1),
     to |-> CASE kind \in {"MoveTo", "ScaleTo", "RotateTo", "StrokeWidthTo"} -> arg
              [] kind = "OpacityTo" -> clamp(arg, R(0), R(1))
              [] kind = "MoveBy" -> Vec2Zero
              [] kind = "ScaleBy" -> Vec2One
              [] kind = "FillColorTo" -> White
              [] kind = "StrokeColorTo" -> Black
              [] OTHER -> R(0),
     canLerp |-> FALSE,
     children |-> <<>>, durations |-> <<>>, ends |-> <<>>, started |-> <<>>,
     cleaned |-> <<>>, currentIndex |-> 0, baseDurations |-> <<>>]

PrimitiveKinds ==
    {"MoveTo", "MoveBy", "RotateTo", "RotateBy", "ScaleTo", "ScaleBy", "OpacityTo",
     "FillColorTo", "StrokeColorTo", "StrokeWidthTo", "FadeIn", "FadeOut"}

\* Animation.setDuration storing the request as it is.
Animation_setDuration_unfloored(a, seconds) == [a EXCEPT !.duration = seconds]

\* Animation.setDuration (the primitives inherit it).
Animation_setDuration(a, seconds) ==
    [a EXCEPT !.duration = IF RGt(seconds, R(0)) THEN seconds ELSE Epsilon]

Animation_setEasing(a, name) == [a EXCEPT !.easing = name]

\* setup(a, m) gives the animation and the Mobject after the call.
\* Every tick begins with `const t = this.ease(tNorm)`: Primitive_tick below
\* computes it and the tick of each class takes that t.
Both(a, m) == [a |-> a, m |-> m]

MoveTo_setup(a, m) == Both([a EXCEPT !.from = m.position], m)

MoveTo_tick(a, m, t) == setPosition(m, lerp(a.from[1], a.to[1], t), lerp(a.from[2], a.to[2], t))

\* MoveBy.setup taking delta for the destination.
MoveBy_setup_absolute(a, m) == Both([a EXCEPT !.from = m.position, !.to = a.arg], m)

MoveBy_setup(a, m) ==
    Both([a EXCEPT !.from = m.position,
                   !.to = <<RAdd(m.position[1], a.arg[1]), RAdd(m.position[2], a.arg[2])>>], m)

MoveBy_tick(a, m, t) == setPosition(m, lerp(a.from[1], a.to[1], t), lerp(a.from[2], a.to[2], t))

RotateTo_setup(a, m) == Both([a EXCEPT !.from = m.rotation], m)

RotateTo_tick(a, m, t) == setRotation(m, lerp(a.from, a.to, t))

RotateBy_setup(a, m) ==
    Both([a EXCEPT !.from = m.rotation, !.to = RAdd(m.rotation, a.arg)], m)

RotateBy_tick(a, m, t) == setRotation(m, lerp(a.from, a.to, t))

ScaleTo_setup(a, m) == Both([a EXCEPT !.from = m.scale], m)

ScaleTo_tick(a, m, t) == setScale(m, lerp(a.from[1], a.to[1], t), lerp(a.from[2], a.to[2], t))

ScaleBy_setup(a, m) ==
    Both([a EXCEPT !.from = m.scale,
                   !.to = <<RMul(m.scale[1], a.arg[1]), RMul(m.scale[2], a.arg[2])>>], m)

ScaleBy_tick(a, m, t) == setScale(m, lerp(a.from[1], a.to[1], t), lerp(a.from[2], a.to[2], t))

OpacityTo_setup(a, m) == Both([a EXCEPT !.from = m.opacity], m)

OpacityTo_tick(a, m, t) == setOpacity(m, lerp(a.from, a.to, t))

StrokeWidthTo_setup(a, m) == Both([a EXCEPT !.from = m.strokeWidth], m)

StrokeWidthTo_tick(a, m, t) == setStrokeWidth(m, lerp(a.from, a.to, t))

\* FillColorTo.setup and StrokeColorTo.setup differ only in the property.
\* cur is the current color; fromParsed and toParsed are the two parses.
\* The result is the animation and the color the target has afterwards.
ColorTo_capture(a, cur, fromParsed, toParsed) ==
    IF fromParsed # NoRGBA
    THEN [a |-> [a EXCEPT !.canLerp = (toParsed # NoRGBA),
                          !.to = IF toParsed # NoRGBA THEN toParsed ELSE @,
                          !.from = fromParsed],
          color |-> toHex(fromParsed)]
    ELSE IF toParsed # NoRGBA
    THEN [a |-> [a EXCEPT !.canLerp = FALSE, !.to = toParsed, !.from = toParsed],
          color |-> toHex(toParsed)]
    ELSE [a |-> [a EXCEPT !.canLerp = FALSE], color |-> cur]

ColorTo_setup(a, cur) ==
    ColorTo_capture(a, cur, IF Falsy(cur) THEN NoRGBA ELSE parseHex(cur), parseHex(a.arg))

\* The color the target has after a tick; cur is the one it has before.
ColorTo_tick(a, cur, t) ==
    IF a.canLerp
    THEN toHex(<<lerp(a.from[1], a.to[1], t), lerp(a.from[2], a.to[2], t),
                 lerp(a.from[3], a.to[3], t), lerp(a.from[4], a.to[4], t)>>)
    ELSE IF RGe(t, R(1)) THEN a.arg ELSE cur

FillColorTo_set(m, r) == Both(r.a, fill(m, r.color))
FillColorTo_setup(a, m) == FillColorTo_set(m, ColorTo_setup(a, m.fillColor))

FillColorTo_tick(a, m, t) == fill(m, ColorTo_tick(a, m.fillColor, t))

StrokeColorTo_set(m, r) == Both(r.a, stroke(m, r.color))
StrokeColorTo_setup(a, m) == StrokeColorTo_set(m, ColorTo_setup(a, m.strokeColor))

StrokeColorTo_tick(a, m, t) == stroke(m, ColorTo_tick(a, m.strokeColor, t))

FadeIn_setup(a, m) == Both([a EXCEPT !.from = m.opacity], setOpacity(m, m.opacity))

FadeIn_tick(a, m, t) == setOpacity(m, RAdd(a.from, RMul(RSub(R(1), a.from), t)))

FadeOut_setup(a, m) == Both([a EXCEPT !.from = m.opacity], setOpacity(m, m.opacity))

FadeOut_tick(a, m, t) == setOpacity(m, RMul(a.from, RSub(R(1), t)))

FadeOut_cleanup(a, m) == setOpacity(m, R(0))

\* Dynamic dispatch of the three lifecycle methods on a primitive.
Primitive_setup(a, m) ==
    CASE a.kind = "MoveTo" -> MoveTo_setup(a, m)
      [] a.kind = "MoveBy" -> MoveBy_setup(a, m)
      [] a.kind = "RotateTo" -> RotateTo_setup(a, m)
      [] a.kind = "RotateBy" -> RotateBy_setup(a, m)
      [] a.kind = "ScaleTo" -> ScaleTo_setup(a, m)
      [] a.kind = "ScaleBy" -> ScaleBy_setup(a, m)
      [] a.kind = "OpacityTo" -> OpacityTo_setup(a, m)
      [] a.kind = "FillColorTo" -> FillColorTo_setup(a, m)
      [] a.kind = "StrokeColorTo" -> StrokeColorTo_setup(a, m)
      [] a.kind = "StrokeWidthTo" -> StrokeWidthTo_setup(a, m)
      [] a.kind = "FadeIn" -> FadeIn_setup(a, m)
      [] a.kind = "FadeOut" -> FadeOut_setup(a, m)

Primitive_apply(a, m, t) ==
    CASE a.kind = "MoveTo" -> MoveTo_tick(a, m, t)
      [] a.kind = "MoveBy" -> MoveBy_tick(a, m, t)
      [] a.kind = "RotateTo" -> RotateTo_tick(a, m, t)
      [] a.kind = "RotateBy" -> RotateBy_tick(a, m, t)
      [] a.kind = "ScaleTo" -> ScaleTo_tick(a, m, t)
      [] a.kind = "ScaleBy" -> ScaleBy_tick(a, m, t)
      [] a.kind = "OpacityTo" -> OpacityTo_tick(a, m, t)
      [] a.kind = "FillColorTo" -> FillColorTo_tick(a, m, t)
      [] a.kind = "StrokeColorTo" -> StrokeColorTo_tick(a, m, t)
      [] a.kind = "StrokeWidthTo" -> StrokeWidthTo_tick(a, m, t)
      [] a.kind = "FadeIn" -> FadeIn_tick(a, m, t)
      [] a.kind = "FadeOut" -> FadeOut_tick(a, m, t)

Primitive_tick(a, m, tNorm) == CHOOSE v \in {Primitive_apply(a, m, e) : e \in {ease(a.easing, tNorm)}} : TRUE

\* Animation.cleanup is a no-op; only FadeOut overrides it.
Primitive_cleanup(a, m) == IF a.kind = "FadeOut" THEN FadeOut_cleanup(a, m) ELSE m

(***************************************************************************)
(* The world the lifecycle methods act on:                                 *)
(*   anim   the animation objects, a tree rooted at node 1                 *)
(*   mob    the Mobjects                                                   *)
(*   obs    per animation object, what calls it has received so far        *)
(*   clock  the number of lifecycle calls made so far on any object        *)
(*   log    the lifecycle calls made since the world was taken up, in       *)
(*          order: which method, on which object, tick with which argument *)
(***************************************************************************)
NoObs ==
    [setups |-> 0, ticks |-> 0, cleanups |-> 0,
     setupAt |-> 0, firstTickAt |-> 0, lastTickAt |-> 0, oneAt |-> 0, cleanupAt |-> 0,
     lastT |-> R(0), maxT |-> R(0), tickUnset |-> FALSE, tickAfterCleanup |-> FALSE]

World(a, m, o, c) == [anim |-> a, mob |-> m, obs |-> o, clock |-> c, log |-> <<>>]

Call(op, n, t) == [op |-> op, n |-> n, t |-> t]

NoteSetup(w, n) ==
    [w EXCEPT !.clock = @ + 1,
              !.log = Append(@, Call("setup", n, R(0))),
              !.obs[n].setups = @ + 1,
              !.obs[n].setupAt = IF @ = 0 THEN w.clock + 1 ELSE @]

NoteTick(w, n, t) ==
    [w EXCEPT !.clock = @ + 1,
              !.log = Append(@, Call("tick", n, t)),
              !.obs[n].ticks = @ + 1,
              !.obs[n].firstTickAt = IF @ = 0 THEN w.clock + 1 ELSE @,
              !.obs[n].lastTickAt = w.clock + 1,
              !.obs[n].oneAt = IF @ = 0 /\ t = R(1) THEN w.clock + 1 ELSE @,
              !.obs[n].lastT = t,
              !.obs[n].maxT = RMax(@, t),
              !.obs[n].tickUnset = @ \/ w.obs[n].setups = 0,
              !.obs[n].tickAfterCleanup = @ \/ w.obs[n].cleanups > 0]

NoteCleanup(w, n) ==
    [w EXCEPT !.clock = @ + 1,
              !.log = Append(@, Call("cleanup", n, R(0))),
              !.obs[n].cleanups = @ + 1,
              !.obs[n].cleanupAt = IF @ = 0 THEN w.clock + 1 ELSE @]

IsComposite(a) == a.kind \in {"Sequence", "Parallel"}

(***************************************************************************)
(* Calls.  A method of a combinator calls methods of its children, which   *)
(* may be combinators again.  The model runs a call to completion with a   *)
(* stack of frames: a frame is a call still to be made (setup, tick,       *)
(* cleanup of node n) or the rest of a method body after a call it made.   *)
(* Each method below gives the world after its own statements up to its    *)
(* first call, and the frames that remain to be run, in order.             *)
(*   op  what to run   n  the object   i  a child index (0-based)          *)
(*   t   tNorm for "tick", tAbs or localT inside the combinators           *)
(***************************************************************************)
Frame(op, n, i, t) == [op |-> op, n |-> n, i |-> i, t |-> t]
Go(w, k) == [w |-> w, k |-> k]
\* The children indexed from the last one.
Child_mirrored(w, n, i) == w.anim[n].children[Len(w.anim[n].children) - i]

\* `this.children[i]`
Child(w, n, i) == w.anim[n].children[i + 1]

RECURSIVE call_setDuration(_, _, _)

(***************************************************************************)
(* animation/base/combinators.ts: SequenceAnimation                        *)
(***************************************************************************)
RECURSIVE SumTo(_, _)
SumTo(ds, i) == IF i = 0 THEN R(0) ELSE RAdd(SumTo(ds, i - 1), ds[i])

\* The loop `acc += durations[i]; ends.push(acc)`.
PrefixSums(ds) == [i \in 1..Len(ds) |-> SumTo(ds, i)]

AllFalse(k) == [i \in 1..k |-> FALSE]

\* `throw new Error(message)`: what a constructor that throws leaves in
\* place of an object.
Thrown(message) == [kind |-> "Error", message |-> message]

\* The constructor below without its check of children.length.
SequenceAnimation_unchecked(anim, children) ==
    LET ds == [i \in 1..Len(children) |-> anim[children[i]].duration]
    IN  [NewAnimation("Sequence", 0, <<>>) EXCEPT
            !.children = children,
            !.durations = ds,
            !.ends = PrefixSums(ds),
            !.duration = SumTo(ds, Len(ds)),
            !.started = AllFalse(Len(children)),
            !.cleaned = AllFalse(Len(children))]

\* new SequenceAnimation(...children): anim holds the children already.
SequenceAnimation(anim, children) ==
    IF Len(children) = 0 THEN Thrown("Sequence requires at least one animation")
    ELSE LET ds == [i \in 1..Len(children) |-> anim[children[i]].duration]
         IN  [NewAnimation("Sequence", 0, <<>>) EXCEPT
                 !.children = children,
                 !.durations = ds,
                 !.ends = PrefixSums(ds),
                 !.duration = SumTo(ds, Len(ds)),
                 !.started = AllFalse(Len(children)),
                 !.cleaned = AllFalse(Len(children))]

\* The statement below leaving the child's duration as it is.
ScaledDuration_unscaled(duration, factor) == duration

\* `Math.max(child.duration * factor, 0.000001)` (duration, factor > 0).
ScaledDuration(duration, factor) ==
    IF BelowMillionth(duration, factor) THEN Epsilon ELSE RMul(duration, factor)

\* The first loop of Sequence.setDuration, from child i on (1-based).
RECURSIVE Sequence_rescale(_, _, _, _)
Sequence_rescale(anim, n, factor, i) ==
    IF i > Len(anim[n].children) THEN anim
    ELSE LET c == anim[n].children[i]
             d == ScaledDuration(anim[c].duration, factor)
             a1 == call_setDuration(anim, c, d)
         IN  Sequence_rescale([a1 EXCEPT ![n].durations[i] = d], n, factor, i + 1)

\* Sequence.setDuration with the factor upside down.
Sequence_setDuration_inverted(anim, n, seconds) ==
    LET old == anim[n].duration
        factor == IF RGt(seconds, R(0)) THEN RDiv(old, seconds) ELSE RDiv(old, Epsilon)
        a1 == Sequence_rescale(anim, n, factor, 1)
        ds == a1[n].durations
    IN  [a1 EXCEPT ![n].ends = PrefixSums(ds), ![n].duration = SumTo(ds, Len(ds))]

Sequence_setDuration(anim, n, seconds) ==
    LET old == anim[n].duration
        factor == IF RGt(seconds, R(0)) THEN RDiv(seconds, old) ELSE RDiv(Epsilon, old)
        a1 == Sequence_rescale(anim, n, factor, 1)
        ds == a1[n].durations
    IN  [a1 EXCEPT ![n].ends = PrefixSums(ds), ![n].duration = SumTo(ds, Len(ds))]

\* A Sequence that sets its children up at once, as a Parallel does.
Sequence_setup_eager(w, n) ==
    Go([w EXCEPT !.anim[n].currentIndex = 0,
                 !.anim[n].started = AllFalse(Len(@)),
                 !.anim[n].cleaned = AllFalse(Len(@))],
       [i \in 1..Len(w.anim[n].children) |-> Frame("setup", w.anim[n].children[i], 0, R(0))])

Sequence_setup(w, n) ==
    Go([w EXCEPT !.anim[n].currentIndex = 0,
                 !.anim[n].started = AllFalse(Len(@)),
                 !.anim[n].cleaned = AllFalse(Len(@))], <<>>)

\* The statement below without its guard.
Sequence_start_unguarded(w, n, idx) ==
    Go(w, <<Frame("setup", Child(w, n, idx), 0, R(0)), Frame("started", n, idx, R(0))>>)

\* `if (!this.started[idx]) { child.setup(); this.started[idx] = true; }`
Sequence_start(w, n, idx) ==
    IF w.anim[n].started[idx + 1] THEN Go(w, <<>>)
    ELSE Go(w, <<Frame("setup", Child(w, n, idx), 0, R(0)), Frame("started", n, idx, R(0))>>)

\* `if (!this.cleaned[idx]) { child.cleanup(); this.cleaned[idx] = true; }`
Sequence_clean(w, n, idx) ==
    IF w.anim[n].cleaned[idx + 1] THEN Go(w, <<>>)
    ELSE Go(w, <<Frame("cleanup", Child(w, n, idx), 0, R(0)), Frame("cleaned", n, idx, R(0))>>)

\* The loop below without `this.children[idx].tick(1)`.
Sequence_while_unticked(w, n, tAbs) ==
    LET a == w.anim[n]
        idx == a.currentIndex
    IN  IF idx < Len(a.children) /\ RGe(tAbs, a.ends[idx + 1])
        THEN Go(w, <<Frame("Sequence.start", n, idx, R(0)),
                     Frame("Sequence.clean", n, idx, R(0)),
                     Frame("Sequence.advance", n, 0, R(0)),
                     Frame("Sequence.while", n, 0, tAbs)>>)
        ELSE Go(w, <<>>)

\* One test of the while loop of Sequence.tick, and its body.
Sequence_while(w, n, tAbs) ==
    LET a == w.anim[n]
        idx == a.currentIndex
    IN  IF idx < Len(a.children) /\ RGe(tAbs, a.ends[idx + 1])
        THEN Go(w, <<Frame("Sequence.start", n, idx, R(0)),
                     Frame("tick", Child(w, n, idx), 0, R(1)),
                     Frame("Sequence.clean", n, idx, R(0)),
                     Frame("Sequence.advance", n, 0, R(0)),
                     Frame("Sequence.while", n, 0, tAbs)>>)
        ELSE Go(w, <<>>)

\* `this.currentIndex++`
Sequence_advance(w, n) == Go([w EXCEPT !.anim[n].currentIndex = @ + 1], <<>>)

\* The statements below measuring the child's local time from 0, not from
\* the end of the child before it.
Sequence_current_from_zero(w, n, tAbs) ==
    LET a == w.anim[n]
        idx == a.currentIndex
    IN  IF idx >= Len(a.children) THEN Go(w, <<>>)
        ELSE LET dur == a.durations[idx + 1]
                 localT == IF RGt(dur, R(0)) THEN RDiv(tAbs, dur) ELSE R(1)
             IN  Go(w, <<Frame("Sequence.start", n, idx, R(0)),
                         Frame("tick", Child(w, n, idx), 0, RMin(RMax(localT, R(0)), R(1)))>>)

\* Sequence.tick after the while loop.
Sequence_current(w, n, tAbs) ==
    LET a == w.anim[n]
        idx == a.currentIndex
    IN  IF idx >= Len(a.children) THEN Go(w, <<>>)
        ELSE LET start == IF idx = 0 THEN R(0) ELSE a.ends[idx]
                 dur == a.durations[idx + 1]
                 localT == IF RGt(dur, R(0)) THEN RDiv(RSub(tAbs, start), dur) ELSE R(1)
             IN  Go(w, <<Frame("Sequence.start", n, idx, R(0)),
                         Frame("tick", Child(w, n, idx), 0, RMin(RMax(localT, R(0)), R(1)))>>)

\* Sequence.tick looking for the current child from the first child on at
\* every tick.
Sequence_tick_from_first(w, n, tNorm) ==
    LET total == w.anim[n].duration
        tAbs == RMul(RMin(RMax(tNorm, R(0)), R(1)), total)
    IN  Go([w EXCEPT !.anim[n].currentIndex = 0],
           <<Frame("Sequence.while", n, 0, tAbs), Frame("Sequence.current", n, 0, tAbs)>>)

Sequence_tick(w, n, tNorm) ==
    LET total == w.anim[n].duration
        tAbs == RMul(RMin(RMax(tNorm, R(0)), R(1)), total)
    IN  Go(w, <<Frame("Sequence.while", n, 0, tAbs), Frame("Sequence.current", n, 0, tAbs)>>)

\* The statement below without its guard.
Composite_finish_unguarded(w, n, i) ==
    Go(w, <<Frame("tick", Child(w, n, i), 0, R(1)),
            Frame("cleanup", Child(w, n, i), 0, R(1)),
            Frame("cleaned", n, i, R(0))>>)

\* `if (!this.cleaned[i]) { child.tick(1); child.cleanup(); this.cleaned[i] = true; }`
\* (the same statement in Sequence.cleanup and in Parallel.cleanup)
Composite_finish(w, n, i) ==
    IF w.anim[n].cleaned[i + 1] THEN Go(w, <<>>)
    ELSE Go(w, <<Frame("tick", Child(w, n, i), 0, R(1)),
                 Frame("cleanup", Child(w, n, i), 0, R(1)),
                 Frame("cleaned", n, i, R(0))>>)

\* Sequence.cleanup without the lazy setup of a child that never started.
Sequence_cleanup_at_unstarted(w, n, i) ==
    IF i >= Len(w.anim[n].children) THEN Go(w, <<>>)
    ELSE Go(w, <<Frame("finish", n, i, R(0)),
                 Frame("Sequence.cleanup", n, i + 1, R(0))>>)

\* The loop of Sequence.cleanup at child i.
Sequence_cleanup_at(w, n, i) ==
    IF i >= Len(w.anim[n].children) THEN Go(w, <<>>)
    ELSE Go(w, <<Frame("Sequence.start", n, i, R(0)),
                 Frame("finish", n, i, R(0)),
                 Frame("Sequence.cleanup", n, i + 1, R(0))>>)

Sequence_cleanup(w, n) == Go(w, <<Frame("Sequence.cleanup", n, 0, R(0))>>)

(***************************************************************************)
(* animation/base/combinators.ts: ParallelAnimation                        *)
(***************************************************************************)
RECURSIVE MaxTo(_, _)
MaxTo(ds, i) == IF i = 0 THEN R(0) ELSE LET m == MaxTo(ds, i - 1) IN IF RGt(m, ds[i]) THEN m ELSE ds[i]

\* The constructor below taking the first child's duration for its own.
ParallelAnimation_first(anim, children) ==
    IF Len(children) = 0 THEN Thrown("Parallel requires at least one animation")
    ELSE LET ds == [i \in 1..Len(children) |-> anim[children[i]].duration]
         IN  [NewAnimation("Parallel", 0, <<>>) EXCEPT
                 !.children = children,
                 !.baseDurations = ds,
                 !.duration = ds[1],
                 !.cleaned = AllFalse(Len(children))]

\* new ParallelAnimation(...children)
ParallelAnimation(anim, children) ==
    IF Len(children) = 0 THEN Thrown("Parallel requires at least one animation")
    ELSE LET ds == [i \in 1..Len(children) |-> anim[children[i]].duration]
         IN  [NewAnimation("Parallel", 0, <<>>) EXCEPT
                 !.children = children,
                 !.baseDurations = ds,
                 !.duration = MaxTo(ds, Len(ds)),
                 !.cleaned = AllFalse(Len(children))]

\* The helper functions Sequence(...anims) and Parallel(...anims).
Sequence(anim, anims) == SequenceAnimation(anim, anims)
Parallel(anim, anims) == ParallelAnimation(anim, anims)

RECURSIVE Parallel_rescale(_, _, _, _)
Parallel_rescale(anim, n, factor, i) ==
    IF i > Len(anim[n].children) THEN anim
    ELSE LET c == anim[n].children[i]
             d == ScaledDuration(anim[c].duration, factor)
         IN  Parallel_rescale(call_setDuration(anim, c, d), n, factor, i + 1)

\* Parallel.setDuration that rescales the children and forgets its own _duration.
Parallel_setDuration_children_only(anim, n, seconds) ==
    LET oldMax == anim[n].duration
        factor == IF RGt(seconds, R(0)) THEN RDiv(seconds, oldMax) ELSE RDiv(Epsilon, oldMax)
    IN  Parallel_rescale(anim, n, factor, 1)

Parallel_setDuration(anim, n, seconds) ==
    LET oldMax == anim[n].duration
        factor == IF RGt(seconds, R(0)) THEN RDiv(seconds, oldMax) ELSE RDiv(Epsilon, oldMax)
        a1 == Parallel_rescale(anim, n, factor, 1)
    IN  [a1 EXCEPT ![n].duration = IF RGt(seconds, R(0)) THEN seconds ELSE Epsilon]

\* `for (...) this.children[i].setup()`
Parallel_setup(w, n) ==
    Go(w, [i \in 1..Len(w.anim[n].children) |-> Frame("setup", w.anim[n].children[i], 0, R(0))])

\* Parallel.tick handing every child the Parallel's own normalized time.
Parallel_child_global(w, n, i, tAbs) ==
    LET total == w.anim[n].duration
        localT == IF RGt(total, R(0)) THEN RMin(RDiv(tAbs, total), R(1)) ELSE R(1)
    IN  Go(w, <<Frame("tick", Child(w, n, i), 0, localT), Frame("Parallel.after", n, i, localT)>>)

\* The body of the loop of Parallel.tick for child i, up to child.tick(localT).
Parallel_child(w, n, i, tAbs) ==
    LET d == w.anim[Child(w, n, i)].duration
        localT == IF RGt(d, R(0)) THEN RMin(RDiv(tAbs, d), R(1)) ELSE R(1)
    IN  Go(w, <<Frame("tick", Child(w, n, i), 0, localT), Frame("Parallel.after", n, i, localT)>>)

\* `if (localT >= 1 && !this.cleaned[i]) { child.cleanup(); this.cleaned[i] = true; }`
Parallel_after(w, n, i, localT) ==
    IF RGe(localT, R(1)) /\ ~w.anim[n].cleaned[i + 1]
    THEN Go(w, <<Frame("cleanup", Child(w, n, i), 0, R(0)), Frame("cleaned", n, i, R(0))>>)
    ELSE Go(w, <<>>)

\* Parallel.tick taking tNorm as it comes.
Parallel_tick_unclamped(w, n, tNorm) ==
    LET total == w.anim[n].duration
        tAbs == RMul(tNorm, total)
    IN  Go(w, [i \in 1..Len(w.anim[n].children) |-> Frame("Parallel.child", n, i - 1, tAbs)])

Parallel_tick(w, n, tNorm) ==
    LET total == w.anim[n].duration
        tAbs == RMul(RMin(RMax(tNorm, R(0)), R(1)), total)
    IN  Go(w, [i \in 1..Len(w.anim[n].children) |-> Frame("Parallel.child", n, i - 1, tAbs)])

Parallel_cleanup(w, n) ==
    Go(w, [i \in 1..Len(w.anim[n].children) |-> Frame("finish", n, i - 1, R(0))])

(***************************************************************************)
(* The virtual calls, and the machine that runs a call to completion.      *)
(***************************************************************************)
call_setDuration(anim, n, seconds) ==
    CASE anim[n].kind = "Sequence" -> Sequence_setDuration(anim, n, seconds)
      [] anim[n].kind = "Parallel" -> Parallel_setDuration(anim, n, seconds)
      [] OTHER -> [anim EXCEPT ![n] = Animation_setDuration(@, seconds)]

\* The animation and the Mobject a primitive's setup leaves, put back.
Store(w, n, target, r) == Go([w EXCEPT !.anim[n] = r.a, !.mob[target] = r.m], <<>>)

call_setup(w, n) ==
    LET w1 == NoteSetup(w, n)
        a == w.anim[n]
    IN  CASE a.kind = "Sequence" -> Sequence_setup(w1, n)
          [] a.kind = "Parallel" -> Parallel_setup(w1, n)
          [] OTHER -> Store(w1, n, a.target, Primitive_setup(a, w.mob[a.target]))

call_tick(w, n, tNorm) ==
    LET w1 == NoteTick(w, n, tNorm)
        a == w.anim[n]
    IN  CASE a.kind = "Sequence" -> Sequence_tick(w1, n, tNorm)
          [] a.kind = "Parallel" -> Parallel_tick(w1, n, tNorm)
          [] OTHER -> Go([w1 EXCEPT !.mob[a.target] = Primitive_tick(a, @, tNorm)], <<>>)

call_cleanup(w, n) ==
    LET w1 == NoteCleanup(w, n)
        a == w.anim[n]
    IN  CASE a.kind = "Sequence" -> Sequence_cleanup(w1, n)
          [] a.kind = "Parallel" -> Parallel_cleanup(w1, n)
          [] OTHER -> Go([w1 EXCEPT !.mob[a.target] = Primitive_cleanup(a, @)], <<>>)

Step(w, f) ==
    CASE f.op = "setup" -> call_setup(w, f.n)
      [] f.op = "tick" -> call_tick(w, f.n, f.t)
      [] f.op = "cleanup" -> call_cleanup(w, f.n)
      [] f.op = "started" -> Go([w EXCEPT !.anim[f.n].started[f.i + 1] = TRUE], <<>>)
      [] f.op = "cleaned" -> Go([w EXCEPT !.anim[f.n].cleaned[f.i + 1] = TRUE], <<>>)
      [] f.op = "finish" -> Composite_finish(w, f.n, f.i)
      [] f.op = "Sequence.start" -> Sequence_start(w, f.n, f.i)
      [] f.op = "Sequence.clean" -> Sequence_clean(w, f.n, f.i)
      [] f.op = "Sequence.while" -> Sequence_while(w, f.n, f.t)
      [] f.op = "Sequence.advance" -> Sequence_advance(w, f.n)
      [] f.op = "Sequence.current" -> Sequence_current(w, f.n, f.t)
      [] f.op = "Sequence.cleanup" -> Sequence_cleanup_at(w, f.n, f.i)
      [] f.op = "Parallel.child" -> Parallel_child(w, f.n, f.i, f.t)
      [] f.op = "Parallel.after" -> Parallel_after(w, f.n, f.i, f.t)

\* Run the frames of k, first to last, each with the frames it leaves.
\* Continue runs the first frame and puts the frames it leaves before the rest.
Continue(c) ==
    IF c.k = <<>> THEN c
    ELSE CHOOSE v \in {Go(r.w, r.k \o Tail(c.k)) : r \in {Step(c.w, Head(c.k))}} : TRUE

\* 2^n frames run one after the other, or as many as there are.
RECURSIVE Frames(_, _)
Frames(c, n) ==
    IF c.k = <<>> THEN c
    ELSE IF n = 0 THEN Continue(c)
    ELSE CHOOSE v \in {Frames(u, n - 1) : u \in {Frames(c, n - 1)}} : TRUE

\* Frames are run, 2^n and then 2^(n+1) of them, until none is left.
RECURSIVE ExecFrom(_, _)
ExecFrom(c, n) ==
    IF c.k = <<>> THEN c.w
    ELSE CHOOSE v \in {ExecFrom(u, n + 1) : u \in {Frames(c, n)}} : TRUE

Exec(w, k) == ExecFrom(Go(w, k), 0)

Run(w, op, n, t) == Exec(w, <<Frame(op, n, 0, t)>>)


(***************************************************************************)
(* The driver: one animation tree, built, then taken through               *)
(* setup() -> tick(t)* -> cleanup()*, as Scene.play and the tests do.      *)
(***************************************************************************)
VARIABLES anim, mob, obs, clock, drv

vars == <<anim, mob, obs, clock, drv>>

Root == 1
Nodes == 1..Len(anim)
W == World(anim, mob, obs, clock)

\* Bounds of the driver.
MaxTicks == 2
MaxCleanups == 2
MaxSetDur == 2
MaxMoves == 2

\* The tNorm values a driver passes to tick.
TickTimes == {R(0), Rat(1, 4), Rat(1, 3), Rat(1, 2), Rat(3, 4), R(1)}

\* The durations the leaves are built with (Animation.setDuration at construction).
DurSet == {R(1), R(3)}

Composite(kind, arr, children) ==
    IF kind = "Sequence" THEN SequenceAnimation(arr, children) ELSE ParallelAnimation(arr, children)

Placeholder == NewAnimation("Sequence", 0, <<>>)

\* Root(l1, .., lk): node 1 is the composite, nodes 2.. are its children.
Flat(kind, leaves) ==
    LET arr == <<Placeholder>> \o leaves
    IN  [arr EXCEPT ![1] = Composite(kind, arr, [i \in 1..Len(leaves) |-> i + 1])]

\* Root(Inner(l1, l2), l3): node 2 is the inner composite, node 3 is l3,
\* nodes 4 and 5 are l1 and l2.
Nested(kind, inner, leaves) ==
    LET arr0 == <<Placeholder, Placeholder, leaves[3], leaves[1], leaves[2]>>
        arr1 == [arr0 EXCEPT ![2] = Composite(inner, arr0, <<4, 5>>)]
    IN  [arr1 EXCEPT ![1] = Composite(kind, arr1, <<2, 3>>)]

Blue == Str6("0", "0", "0", "0", "f", "f")
Red == Str6("f", "f", "0", "0", "0", "0")

\* The leaves of a tree and the Mobjects they animate.
\* Cast 1: three animations of three objects.
\* Cast 2: three animations of one object, two of them of its fill color.
Casts ==
    { [leaves |-> <<NewAnimation("RotateTo", 1, R(2)),
                    NewAnimation("MoveBy", 2, <<R(1), R(-1)>>),
                    NewAnimation("FadeOut", 3, <<>>)>>,
       mob |-> <<DefaultMobject, DefaultMobject, DefaultMobject>>],
      [leaves |-> <<NewAnimation("FillColorTo", 1, Blue),
                    NewAnimation("FillColorTo", 1, Red),
                    NewAnimation("RotateBy", 1, R(1))>>,
       mob |-> <<fill(DefaultMobject, NullColor), DefaultMobject, DefaultMobject>>] }

CompositeKinds == {"Sequence", "Parallel"}

\* The trees over three leaves, each leaf with a duration of DurSet.
Trees(leaves) ==
    LET timed == {[i \in 1..3 |-> Animation_setDuration(leaves[i], d[i])] : d \in [1..3 -> DurSet]}
    IN  {Flat(k, SubSeq(l, 1, 2)) : k \in CompositeKinds, l \in timed}
        \cup {Flat(k, l) : k \in CompositeKinds, l \in timed}
        \cup {Nested(k, j, l) : k \in CompositeKinds, j \in CompositeKinds, l \in timed}

NewDriver(m, a) ==
    [phase |-> "built", nTick |-> 0, nCleanup |-> 0, nSetDur |-> 0,
     mono |-> TRUE, lastT |-> R(0), maxT |-> R(0),
     pre |-> m, built |-> a, callsAt |-> 0,
     prev |-> a, lastS |-> R(0), lastN |-> 0,
     made |-> "", args |-> <<>>, shadow |-> <<>>,
     born |-> m, nMove |-> 0, eased |-> R(0), fps |-> 0, log |-> <<>>, before |-> m, full |-> m, apart |-> m,
     was |-> [n \in 1..Len(a) |-> NoObs]]

Start(a, m) ==
    /\ anim = a
    /\ mob = m
    /\ obs = [n \in 1..Len(a) |-> NoObs]
    /\ clock = 0
    /\ drv = NewDriver(m, a)

Init == \E c \in Casts : \E a \in Trees(c.leaves) : Start(a, c.mob)

\* The lifecycle calls received so far by the objects other than the root.
RECURSIVE CallsFrom(_, _)
CallsFrom(o, n) ==
    IF n > Len(o) THEN 0
    ELSE o[n].setups + o[n].ticks + o[n].cleanups + CallsFrom(o, n + 1)
ChildCalls(o) == CallsFrom(o, 2)

Become(w) ==
    /\ anim' = w.anim
    /\ mob' = w.mob
    /\ obs' = w.obs
    /\ clock' = w.clock

\* The children of the root played one after the other, each on its own:
\* c.setup(); c.tick(1); c.cleanup().
Apart ==
    [j \in 1..(3 * Len(anim[Root].children)) |->
        Frame(<<"setup", "tick", "cleanup">>[((j - 1) % 3) + 1],
              anim[Root].children[((j - 1) \div 3) + 1], 0, R(1))]

\* root.setup(); apart is how the children of the root, played apart, would
\* leave the Mobjects.
Setup ==
    /\ drv.phase = "built"
    /\ Become(Run(W, "setup", Root, R(0)))
    /\ drv' = [drv EXCEPT !.phase = "running", !.pre = mob, !.built = anim, !.log = <<>>,
                          !.apart = Exec(W, Apart).mob]

\* What a call on the root does: the animations and Mobjects it leaves and
\* the calls the root's descendants have received.
Effect(w) == [anim |-> w.anim, mob |-> w.mob, calls |-> SubSeq(w.obs, 2, Len(w.obs))]

\* t brought into [0, 1].
Clamped(t) == RMin(RMax(t, R(0)), R(1))

\* root.tick(t); log is the calls it made, before and was are the Mobjects
\* and the observations as they were when it was called, shadow is what root.tick(Clamped(t)) does in its place, and
\* eased is the value the easing function of a primitive root returns for t.
Ticked(t, w) ==
    /\ Become(w)
    /\ drv' = [drv EXCEPT !.nTick = @ + 1,
                          !.shadow = Effect(Run(W, "tick", Root, Clamped(t))),
                          !.eased = IF IsComposite(anim[Root]) THEN R(0)
                                    ELSE getEasing(anim[Root].easing, Clamped(t)),
                          !.mono = @ /\ (drv.nTick = 0 \/ RLe(drv.lastT, t)),
                          !.lastT = t,
                          !.maxT = RMax(@, RMin(RMax(t, R(0)), R(1))),
                          !.before = mob,
                          !.was = obs,
                          !.log = w.log]

Tick(t) ==
    /\ drv.phase = "running"
    /\ drv.nTick < MaxTicks
    /\ Ticked(t, Run(W, "tick", Root, t))

\* root.cleanup(); full is how complete playback would leave the Mobjects:
\* root.tick(1) and then root.cleanup().
CleanedUp(w, full) ==
    /\ Become(w)
    /\ drv' = [drv EXCEPT !.phase = "done", !.nCleanup = @ + 1,
                          !.callsAt = IF drv.nCleanup = 0 THEN ChildCalls(w.obs) ELSE @,
                          !.full = IF drv.nCleanup = 0 THEN full.mob ELSE @,
                          !.before = mob,
                          !.log = w.log]

Cleanup ==
    /\ drv.phase \in {"running", "done"}
    /\ drv.nCleanup < MaxCleanups
    /\ CleanedUp(Run(W, "cleanup", Root, R(0)),
                 Run(Run(W, "tick", Root, R(1)), "cleanup", Root, R(0)))

Next == Setup \/ (\E t \in TickTimes : Tick(t)) \/ Cleanup

Spec == Init /\ [][Next]_vars

(***************************************************************************)
(* The same driver on one primitive animation alone: every class, every    *)
(* easing, and targets in several states.                                  *)
(***************************************************************************)
UpperOrange == Str6("F", "F", "8", "0", "0", "0")
HalfGreen == Str8("0", "0", "f", "f", "0", "0", "8", "0")
\* Named colors, which parseHex does not parse.
NamedRed == <<"r", "e", "d">>
NamedBlue == <<"b", "l", "u", "e">>

\* One animation of each class on Mobject 1 (arguments as a user passes them).
Primitives ==
    { NewAnimation("MoveTo", 1, <<R(3), R(-2)>>),
      NewAnimation("MoveBy", 1, <<R(1), R(-1)>>),
      NewAnimation("RotateTo", 1, R(2)),
      NewAnimation("RotateBy", 1, R(1)),
      NewAnimation("ScaleTo", 1, <<R(2), Rat(1, 2)>>),
      NewAnimation("ScaleBy", 1, <<R(2), R(3)>>),
      NewAnimation("OpacityTo", 1, Rat(1, 4)),
      NewAnimation("FillColorTo", 1, Blue),
      NewAnimation("FillColorTo", 1, UpperOrange),
      NewAnimation("StrokeColorTo", 1, Red),
      NewAnimation("StrokeColorTo", 1, HalfGreen),
      NewAnimation("FillColorTo", 1, NamedRed),
      NewAnimation("StrokeColorTo", 1, NamedRed),
      NewAnimation("StrokeWidthTo", 1, R(4)),
      NewAnimation("FadeIn", 1, <<>>),
      NewAnimation("FadeOut", 1, <<>>) }

\* The states the target is in when the animation starts.
StartMobjects ==
    { DefaultMobject,
      Mobject(<<R(1), R(2)>>, Rat(1, 2), <<R(2), R(3)>>, Rat(1, 2), NullColor, NamedBlue, R(2)),
      Mobject(<<R(-1), R(0)>>, R(-1), <<R(1), R(1)>>, R(0), HalfGreen, UpperOrange, R(0)) }

InitPrim ==
    \E p \in Primitives : \E e \in EasingNames : \E m \in StartMobjects :
        Start(<<Animation_setEasing(p, e)>>, <<m>>)

SpecPrim == InitPrim /\ [][Next]_vars

(***************************************************************************)
(* A driver that overshoots: the trees and the primitives above, ticked    *)
(* also with times below 0 and above 1.                                    *)
(***************************************************************************)
ClampTimes == {Rat(-1, 2), Rat(1, 3), Rat(3, 2)}

NextClamp == Setup \/ (\E t \in ClampTimes : Tick(t)) \/ Cleanup

SpecClamp == (Init \/ InitPrim) /\ [][NextClamp]_vars

(***************************************************************************)
(* A MoveBy whose target is moved between the construction of the          *)
(* animation and its setup().                                              *)
(***************************************************************************)
Deltas == {<<R(1), R(-1)>>, <<Rat(-5, 2), R(0)>>}

Positions == {<<R(0), R(0)>>, <<R(4), R(-3)>>, <<Rat(1, 2), R(7)>>}

InitMove ==
    \E d \in Deltas : \E m \in StartMobjects : Start(<<NewAnimation("MoveBy", 1, d)>>, <<m>>)

\* obj.setPosition(p) by the scene, before the animation is played.
Reposition(p) ==
    /\ drv.phase = "built"
    /\ drv.nMove < MaxMoves
    /\ mob' = [mob EXCEPT ![1] = setPosition(@, p[1], p[2])]
    /\ drv' = [drv EXCEPT !.nMove = @ + 1]
    /\ UNCHANGED <<anim, obs, clock>>

NextMove == (\E p \in Positions : Reposition(p)) \/ Next

SpecMove == InitMove /\ [][NextMove]_vars

(***************************************************************************)
(* scene/scene.ts: Scene.play(...anims), the frame loop.  Rendering and    *)
(* the writing of files read the Mobjects and change none of them.         *)
(***************************************************************************)
\* Math.ceil of a rational that is not negative.
Math_ceil(a) == (a[1] + a[2] - 1) \div a[2]

\* `let maxDur = 0; for (...) if (a.duration > maxDur) maxDur = a.duration;`
RECURSIVE MaxDur(_, _, _)
MaxDur(a, anims, i) ==
    IF i = 0 THEN R(0)
    ELSE LET m == MaxDur(a, anims, i - 1)
         IN  IF RGt(a[anims[i]].duration, m) THEN a[anims[i]].duration ELSE m

\* The frame count below with the product rounded down.
TotalFrames_floored(maxDur, fps) ==
    IF RFloor(RMul(maxDur, R(fps))) > 1 THEN RFloor(RMul(maxDur, R(fps))) ELSE 1

\* Math.max(1, Math.ceil(maxDur * fps))
TotalFrames(maxDur, fps) ==
    IF Math_ceil(RMul(maxDur, R(fps))) > 1 THEN Math_ceil(RMul(maxDur, R(fps))) ELSE 1

\* The calls of play, in order: setup of every animation, then frame by frame
\* a tick of every animation with t = clamp(tSec / a.duration, 0, 1), then
\* cleanup of every animation.
PlayCalls(a, anims, fps, totalFrames) ==
    [i \in 1..Len(anims) |-> Frame("setup", anims[i], 0, R(0))]
    \o [j \in 1..(totalFrames * Len(anims)) |->
           Frame("tick", anims[((j - 1) % Len(anims)) + 1], 0,
                 clamp(RDiv(Rat((j - 1) \div Len(anims), fps),
                            a[anims[((j - 1) % Len(anims)) + 1]].duration), R(0), R(1)))]
    \o [i \in 1..Len(anims) |-> Frame("cleanup", anims[i], 0, R(0))]

\* The calls lo..hi of the list made one after the other, each run to its
\* end before the next is made.
RECURSIVE MakeCalls(_, _, _, _)
MakeCalls(w, calls, lo, hi) ==
    IF lo > hi THEN w
    ELSE IF lo = hi THEN Exec(w, <<calls[lo]>>)
    ELSE CHOOSE v \in {MakeCalls(u, calls, (lo + hi) \div 2 + 1, hi) :
                           u \in {MakeCalls(w, calls, lo, (lo + hi) \div 2)}} : TRUE

PlayAll(w, calls) == MakeCalls(w, calls, 1, Len(calls))

Scene_play(w, anims, fps) ==
    IF Len(anims) = 0 THEN w
    ELSE PlayAll(w, PlayCalls(w.anim, anims, fps,
                              TotalFrames(MaxDur(w.anim, anims, Len(anims)), fps)))


\* The animations of the array that are no child of a combinator: the ones
\* handed to play.
TopLevel(a) ==
    SelectSeq([n \in 1..Len(a) |-> n],
              LAMBDA n : \A m \in 1..Len(a) : \A i \in 1..Len(a[m].children) : a[m].children[i] # n)

\* this.config.fps
FpsSet == {1, 2, 3, 4}

PlayDurs == {Rat(1, 2), R(1), Rat(3, 2)}

\* One to three primitives, each on a Mobject of its own, or one combinator
\* of two of them.
PlayLists ==
    LET ps == <<NewAnimation("RotateTo", 1, R(2)),
                NewAnimation("MoveBy", 2, <<R(1), R(-1)>>),
                NewAnimation("StrokeWidthTo", 3, R(4))>>
        timed == {[i \in 1..3 |-> Animation_setDuration(ps[i], d[i])] : d \in [1..3 -> PlayDurs]}
    IN  {SubSeq(l, 1, k) : l \in timed, k \in 1..3}
        \cup {Flat(c, SubSeq(l, 1, 2)) : c \in CompositeKinds, l \in timed}

InitPlay == \E a \in PlayLists : Start(a, <<DefaultMobject, DefaultMobject, DefaultMobject>>)

\* scene.play(...anims) with config.fps = fps
ScenePlay(fps) ==
    /\ drv.phase = "built"
    /\ \E w \in {Scene_play(W, TopLevel(anim), fps)} :
           /\ Become(w)
           /\ drv' = [drv EXCEPT !.phase = "played", !.fps = fps, !.pre = mob, !.built = anim,
                                 !.log = w.log]

NextPlay == \E fps \in FpsSet : ScenePlay(fps)

SpecPlay == InitPlay /\ [][NextPlay]_vars

(***************************************************************************)
(* setDuration on the animations of a tree that has been built and not     *)
(* yet played.                                                             *)
(***************************************************************************)
\* The values passed to setDuration: a longer and a shorter time to any
\* animation of the tree, and the shortest time there is to the root.
SetTimes(n) == IF n = Root THEN {R(12), Rat(1, 2), Epsilon} ELSE {R(12), Rat(1, 2)}

\* The durations of the leaves of the flat trees.
DurSet3 == {R(1), R(2), R(3)}

TimedLeaves(ds) ==
    {[i \in 1..3 |-> Animation_setDuration(NewAnimation("RotateTo", i, R(1)), d[i])] : d \in [1..3 -> ds]}

DurTrees ==
    {Flat(k, l) : k \in CompositeKinds, l \in TimedLeaves(DurSet3)}
    \cup {Nested(k, j, l) : k \in CompositeKinds, j \in CompositeKinds, l \in TimedLeaves(DurSet)}

InitDur == \E a \in DurTrees : Start(a, <<DefaultMobject, DefaultMobject, DefaultMobject>>)

\* anim[n].setDuration(s)
SetDuration(n, s) ==
    /\ drv.phase = "built"
    /\ drv.nSetDur < MaxSetDur
    /\ anim' = call_setDuration(anim, n, s)
    /\ drv' = [drv EXCEPT !.nSetDur = @ + 1, !.prev = anim, !.lastS = s, !.lastN = n]
    /\ UNCHANGED <<mob, obs, clock>>

NextDur == \E n \in Nodes : \E s \in SetTimes(n) : SetDuration(n, s)

SpecDur == InitDur /\ [][NextDur]_vars

(***************************************************************************)
(* setDuration with positive, zero and negative requests, on the trees     *)
(* above and on a primitive alone.                                         *)
(***************************************************************************)
\* The requests: none, a negative one, and a positive one; the positive one
\* to a combinator is short enough for the floor to act on its children.
SignTimes(n) ==
    IF IsComposite(anim[n]) THEN {Rat(3, 1000000), R(0), R(-2)} ELSE {R(3), R(0), R(-2)}

Alone == {<<l[1]>> : l \in TimedLeaves(DurSet)}

InitSign == \E a \in DurTrees \cup Alone : Start(a, <<DefaultMobject, DefaultMobject, DefaultMobject>>)

NextSign == \E n \in Nodes : \E s \in SignTimes(n) : SetDuration(n, s)

SpecSign == InitSign /\ [][NextSign]_vars

(***************************************************************************)
(* Construction of the root from a list of children, empty or not, with    *)
(* the constructors or the helper functions, and the lifecycle of what     *)
(* was constructed.                                                        *)
(***************************************************************************)
\* The slot of an object that has not been constructed.
Unbuilt == NewAnimation("none", 0, <<>>)

Makers == {"new SequenceAnimation", "new ParallelAnimation", "Sequence", "Parallel"}

Make(maker, arr, children) ==
    CASE maker = "new SequenceAnimation" -> SequenceAnimation(arr, children)
      [] maker = "new ParallelAnimation" -> ParallelAnimation(arr, children)
      [] maker = "Sequence" -> Sequence(arr, children)
      [] maker = "Parallel" -> Parallel(arr, children)

\* The child lists: the first k of the three leaves (nodes 2, 3, 4).
ChildLists == {SubSeq(<<2, 3, 4>>, 1, k) : k \in 0..3}

InitBuild ==
    \E c \in Casts : \E d \in [1..3 -> DurSet] :
        /\ Start(<<Unbuilt>> \o [i \in 1..3 |-> Animation_setDuration(c.leaves[i], d[i])], c.mob)
        /\ drv.phase = "built"

\* root = maker(...children): the object, or the error thrown, after which
\* the caller has no object to play.
Construct(maker, children) ==
    /\ drv.phase = "built"
    /\ drv.made = ""
    /\ LET r == Make(maker, anim, children)
       IN  IF r.kind = "Error"
           THEN /\ anim' = anim
                /\ drv' = [drv EXCEPT !.phase = "thrown", !.made = maker, !.args = children]
           ELSE /\ anim' = [anim EXCEPT ![Root] = r]
                /\ drv' = [drv EXCEPT !.made = maker, !.args = children,
                                      !.built = anim', !.prev = anim']
    /\ UNCHANGED <<mob, obs, clock>>

\* The lifecycle of an object that was constructed.
Play == anim[Root].kind # "none" /\ Next

NextBuild == (\E k \in Makers : \E cs \in ChildLists : Construct(k, cs)) \/ Play

SpecBuild == InitBuild /\ [][NextBuild]_vars

(***************************************************************************)
(* setDuration on the root of a tree, then its lifecycle with every tick   *)
(* a tick(1).                                                              *)
(***************************************************************************)
NextTimed ==
    \/ \E s \in SetTimes(Root) : SetDuration(Root, s)
    \/ Setup
    \/ Tick(R(1))
    \/ Cleanup

SpecTimed == InitDur /\ [][NextTimed]_vars

(***************************************************************************)
(* A FadeOut, under every easing and from several opacities, as one of     *)
(* the two children of a Sequence or a Parallel; the other child rotates   *)
(* another Mobject.                                                        *)
(***************************************************************************)
FadeTimes == {Rat(1, 3), Rat(1, 2), R(1)}

Opacities == {R(1), Rat(1, 2)}

\* The FadeOut first or second.
FadePairs ==
    {<<Animation_setEasing(NewAnimation("FadeOut", 1, <<>>), e),
       Animation_setDuration(NewAnimation("RotateTo", 2, R(2)), d)>> :
         e \in EasingNames, d \in DurSet}
    \cup {<<Animation_setDuration(NewAnimation("RotateTo", 2, R(2)), d),
            Animation_setEasing(NewAnimation("FadeOut", 1, <<>>), e)>> :
              e \in EasingNames, d \in DurSet}

InitFade ==
    \E k \in CompositeKinds : \E l \in FadePairs : \E o \in Opacities :
        Start(Flat(k, l), <<setOpacity(DefaultMobject, o), DefaultMobject>>)

NextFade == Setup \/ (\E t \in FadeTimes : Tick(t)) \/ Cleanup

SpecFade == InitFade /\ [][NextFade]_vars

(***************************************************************************)
(* Properties of the lifecycle of Sequence and Parallel                    *)
(***************************************************************************)
Kids(n) == anim[n].children
Sequences == {n \in Nodes : anim[n].kind = "Sequence"}
Parallels == {n \in Nodes : anim[n].kind = "Parallel"}
Composites == Sequences \cup Parallels
KidsOf(n) == {Kids(n)[i] : i \in 1..Len(Kids(n))}

\* C1: in a Sequence driven by setup(), ticks with non-decreasing t and
\* possibly cleanup(), child i+1 is not set up before child i has been ticked
\* at local t = 1 and has had its cleanup() invoked.
C1_NextChildSetUpAfterPreviousFinished ==
    drv.mono =>
        \A n \in Sequences : \A i \in 1..(Len(Kids(n)) - 1) :
            obs[Kids(n)[i + 1]].setups > 0 =>
                /\ obs[Kids(n)[i]].oneAt > 0
                /\ obs[Kids(n)[i]].oneAt < obs[Kids(n)[i + 1]].setupAt
                /\ obs[Kids(n)[i]].cleanupAt > 0
                /\ obs[Kids(n)[i]].cleanupAt < obs[Kids(n)[i + 1]].setupAt

\* A Sequence whose ticks so far have started its second child, no cleanup() yet.
C1_Witness ==
    /\ anim[Root].kind = "Sequence"
    /\ drv.mono /\ drv.nTick = 2 /\ drv.nCleanup = 0
    /\ obs[Kids(Root)[2]].setups = 1
    /\ obs[Kids(Root)[2]].lastT # R(1)

\* C2: once cleanup() has been called on a Sequence or Parallel that was set
\* up and ticked any number of times, every child has been set up, has been
\* ticked at local t = 1 and has had its cleanup() invoked exactly once.
C2_CleanupFinishesEveryChild ==
    \A n \in Composites :
        obs[n].cleanups > 0 =>
            \A c \in KidsOf(n) :
                /\ obs[c].setups > 0
                /\ obs[c].oneAt > 0
                /\ obs[c].cleanups = 1

\* Playback abandoned before t = 1 with a child already finished by a tick
\* and another one never started, then cleanup().
C2_Witness ==
    /\ drv.nCleanup = 1 /\ drv.nTick > 0 /\ RLt(drv.maxT, R(1))
    /\ \E c \in KidsOf(Root) : obs[c].cleanupAt > 0 /\ obs[c].cleanupAt < obs[Root].cleanupAt
    /\ \E c \in KidsOf(Root) : obs[c].setupAt > obs[Root].cleanupAt

\* C3: however often cleanup() is called, no child's cleanup() is invoked more
\* than once, and from the second cleanup() on no operation is invoked on any child.
C3_CleanupIdempotent ==
    /\ \A n \in Composites : \A c \in KidsOf(n) : obs[c].cleanups <= 1
    /\ drv.nCleanup >= 1 => ChildCalls(obs) = drv.callsAt

\* cleanup() called twice after a tick.
C3_Witness == drv.nCleanup = 2 /\ drv.nTick > 0 /\ ChildCalls(obs) > 0

\* The local time Parallel n hands child c at the Parallel's normalized time t.
LocalTime(n, c, t) == RMin(RDiv(RMul(RMin(RMax(t, R(0)), R(1)), anim[n].duration), anim[c].duration), R(1))

\* C4: in a Parallel that has been ticked and not yet cleaned up, a child whose
\* local time min(tAbs / duration, 1) has reached 1 has been ticked at 1 and
\* has had its cleanup() invoked once, however many ticks followed; a child
\* whose local time has stayed below 1 received that local time at the last
\* tick and has not been cleaned.
C4_ParallelChildFinishesAtItsOwnEnd ==
    \A n \in Parallels :
        (obs[n].ticks > 0 /\ obs[n].cleanups = 0) =>
            \A c \in KidsOf(n) :
                IF LocalTime(n, c, obs[n].maxT) = R(1)
                THEN obs[c].oneAt > 0 /\ obs[c].cleanups = 1
                ELSE obs[c].cleanups = 0 /\ obs[c].lastT = LocalTime(n, c, obs[n].lastT)

\* Parallel(a, b) with durations 1 and 3 after tick(1/3) and one more tick.
C4_Witness ==
    /\ anim[Root].kind = "Parallel" /\ Len(Kids(Root)) = 2
    /\ anim[2].duration = R(1) /\ anim[3].duration = R(3)
    /\ drv.nTick = 2 /\ drv.nCleanup = 0 /\ drv.maxT = Rat(1, 3)
    /\ obs[2].lastT = R(1) /\ obs[2].cleanups = 1 /\ obs[2].ticks = 2
    /\ obs[3].lastT = Rat(1, 3) /\ obs[3].cleanups = 0

\* What primitive c captures as its start value when it alone is set up on
\* the targets as they were before the root's setup().
CapturedAlone(c) == Primitive_setup(drv.built[c], drv.pre[drv.built[c].target]).a.from

\* C5: Parallel.setup() sets every child up before any child is ticked, no
\* child is set up later, during tick or cleanup, and every primitive child's
\* captured start value is the one of the target's state before any sibling
\* has written to it.
C5_ParallelSetsUpAllBeforeAnyTick ==
    \A n \in Parallels :
        obs[n].setups > 0 =>
            \A c \in KidsOf(n) :
                /\ obs[c].setups = 1
                /\ \A b \in KidsOf(n) : obs[b].firstTickAt > 0 => obs[c].setupAt < obs[b].firstTickAt
                /\ obs[n].firstTickAt > 0 => obs[c].setupAt < obs[n].firstTickAt
                /\ obs[n].cleanupAt > 0 => obs[c].setupAt < obs[n].cleanupAt
                /\ (n = Root /\ ~IsComposite(anim[c])) => anim[c].from = CapturedAlone(c)

(***************************************************************************)
(* Properties of the primitive animations                                  *)
(***************************************************************************)
\* The property of Mobject m that animation a animates.
AnimatedProperty(a, m) ==
    CASE a.kind \in {"MoveTo", "MoveBy"} -> m.position
      [] a.kind \in {"RotateTo", "RotateBy"} -> m.rotation
      [] a.kind \in {"ScaleTo", "ScaleBy"} -> m.scale
      [] a.kind \in {"OpacityTo", "FadeIn", "FadeOut"} -> m.opacity
      [] a.kind = "FillColorTo" -> m.fillColor
      [] a.kind = "StrokeColorTo" -> m.strokeColor
      [] a.kind = "StrokeWidthTo" -> m.strokeWidth

\* The end value a was constructed with, m being the target before setup().
EndValue(a, m) ==
    CASE a.kind = "MoveBy" -> <<RAdd(m.position[1], a.arg[1]), RAdd(m.position[2], a.arg[2])>>
      [] a.kind = "RotateBy" -> RAdd(m.rotation, a.arg)
      [] a.kind = "ScaleBy" -> <<RMul(m.scale[1], a.arg[1]), RMul(m.scale[2], a.arg[2])>>
      [] OTHER -> a.arg

EndValueKinds == PrimitiveKinds \ {"FadeIn", "FadeOut"}

\* C6: for each of the ten primitives and each easing, after setup() and
\* tick(1) the animated property equals the end value given at construction.
C6_TickOneReachesEndValue ==
    (/\ Len(anim) = 1 /\ anim[Root].kind \in EndValueKinds
     /\ drv.nTick = 1 /\ drv.lastT = R(1) /\ drv.nCleanup = 0)
        => AnimatedProperty(anim[Root], mob[1]) = EndValue(drv.built[Root], drv.pre[1])

\* C7: for every primitive and every easing, after setup() and tick(0) the
\* animated property has the value it had before setup().
C7_TickZeroReproducesStart ==
    (/\ Len(anim) = 1
     /\ drv.nTick = 1 /\ drv.lastT = R(0) /\ drv.nCleanup = 0)
        => AnimatedProperty(anim[Root], mob[1]) = AnimatedProperty(anim[Root], drv.pre[1])

\* C8: setup() of a primitive leaves every property of the target as it was.
C8_SetupLeavesTargetUnchanged ==
    (/\ Len(anim) = 1
     /\ drv.phase = "running" /\ drv.nTick = 0 /\ drv.nCleanup = 0)
        => mob = drv.pre

(***************************************************************************)
(* Properties of setDuration                                               *)
(***************************************************************************)
\* The last call was anim[n].setDuration(s) with s > 0 on a combinator of kind k.
Rescaled(k) ==
    /\ drv.nSetDur > 0
    /\ anim[drv.lastN].kind = k
    /\ RGt(drv.lastS, R(0))

\* s / old, old being the duration of the combinator before the call.
Factor == RDiv(drv.lastS, drv.prev[drv.lastN].duration)

\* Child c's duration after the call is its duration before the call times s / old.
Multiplied(c) == RDiv(anim[c].duration, drv.prev[c].duration) = Factor

\* Child c's duration before the call times s / old is at least 0.000001.
Unfloored(c) == ~BelowMillionth(drv.prev[c].duration, Factor)

\* The value the call passes to child c's setDuration: max(d * s / old, 0.000001).
Passed(c) == IF Unfloored(c) THEN RMul(drv.prev[c].duration, Factor) ELSE Epsilon

\* Child c takes the duration passed to it as it is (a Sequence reports the
\* sum of its own children's durations instead).
Plain(c) == anim[c].kind # "Sequence"

MaxChild(a, n) == MaxTo([i \in 1..Len(a[n].children) |-> a[a[n].children[i]].duration], Len(a[n].children))

C11_DurationsStayPositive ==
    /\ \A n \in Nodes : RGt(anim[n].duration, R(0))
    /\ \A n \in Sequences : \A i \in 1..Len(Kids(n)) : RGt(anim[n].durations[i], R(0))
    /\ (drv.nSetDur > 0 /\ ~IsComposite(anim[drv.lastN]) /\ RLe(drv.lastS, R(0)))
           => anim[drv.lastN].duration = Epsilon

\* A nested tree after setDuration(0) on its root and a negative request on a leaf.
C11_Witness ==
    /\ Len(anim) = 5 /\ drv.nSetDur = 2
    /\ drv.lastN = 4 /\ drv.lastS = R(-2) /\ anim[4].duration = Epsilon
    /\ anim[5].duration = Epsilon /\ drv.prev[5].duration = Epsilon /\ drv.built[5].duration # Epsilon

\* The sum of the durations that the children of n have in tree a.
SumChild(a, n) == SumTo([i \in 1..Len(a[n].children) |-> a[a[n].children[i]].duration], Len(a[n].children))

\* In tree a every Sequence lasts the sum, and every Parallel the maximum,
\* of its children's durations.
Consistent(a) ==
    \A n \in 1..Len(a) :
        /\ a[n].kind = "Sequence" => a[n].duration = SumChild(a, n)
        /\ a[n].kind = "Parallel" => a[n].duration = MaxChild(a, n)

Descendants == Nodes \ {Root}

\* The last call was setDuration(s), s > 0, on the root of a nested tree in
\* which every combinator lasted the sum or the maximum of its children.
RootRescaled ==
    /\ drv.nSetDur > 0 /\ drv.lastN = Root
    /\ \E c \in KidsOf(Root) : IsComposite(anim[c])
    /\ RGt(drv.lastS, R(0))
    /\ Consistent(drv.prev)

C13_EmptyChildListThrows ==
    /\ (drv.made # "" /\ Len(drv.args) = 0) => (drv.phase = "thrown" /\ anim[Root] = Unbuilt)
    /\ \A n \in Composites : Len(Kids(n)) >= 1
    /\ drv.phase = "thrown" => clock = 0

\* Parallel() called with no animation.
C13_Witness == drv.made = "Parallel" /\ drv.args = <<>> /\ drv.phase = "thrown"

(***************************************************************************)
(* Properties of tick                                                      *)
(***************************************************************************)
\* C14: tick(t) with t < 0 does what tick(0) does, and tick(t) with t > 1
\* what tick(1) does, on a primitive, a Sequence and a Parallel: the same
\* animations and Mobjects afterwards and the same calls, with the same
\* times, on every descendant.
C14_TickClampsToUnitInterval ==
    (drv.nTick > 0 /\ drv.nCleanup = 0) => Effect(W) = drv.shadow

\* Parallel(a, b, ...) after setup() and tick(-1/2): a was ticked at 0.
C14_Witness ==
    /\ anim[Root].kind = "Parallel"
    /\ drv.nTick = 1 /\ drv.nCleanup = 0 /\ drv.lastT = Rat(-1, 2)
    /\ obs[2].ticks = 1 /\ obs[2].lastT = R(0)

\* color is none of the forms #RRGGBB and #RRGGBBAA (null is none of them).
NotHex(color) == parseHex(color) = NoRGBA

\* The root is a FillColorTo or StrokeColorTo alone, and the target's color
\* before setup() or the requested color is not a hex string.
ColorFallback ==
    /\ Len(anim) = 1 /\ anim[Root].kind \in {"FillColorTo", "StrokeColorTo"}
    /\ drv.phase = "running" /\ drv.nCleanup = 0
    /\ NotHex(AnimatedProperty(anim[Root], drv.pre[1])) \/ NotHex(anim[Root].arg)

\* C15: when the target's color or the requested color is not a hex string,
\* setup() and every tick with t < 1 leave the target's color as it was
\* before setup(), and a tick at t = 1 sets it to the requested color string.
C15_NonHexColorSnapsAtOne ==
    ColorFallback =>
        /\ RLt(drv.maxT, R(1))
               => AnimatedProperty(anim[Root], mob[1]) = AnimatedProperty(anim[Root], drv.pre[1])
        /\ (drv.nTick > 0 /\ Clamped(drv.lastT) = R(1))
               => AnimatedProperty(anim[Root], mob[1]) = anim[Root].arg

\* C16: a MoveBy(obj, [dx, dy]) whose target is at (x0, y0) when setup() is
\* called leaves it at (x0 + dx, y0 + dy) after tick(1), wherever the target
\* was when the animation was constructed and however it was moved since.
C16_MoveByIsRelativeToSetup ==
    (/\ Len(anim) = 1 /\ anim[Root].kind = "MoveBy"
     /\ drv.nTick > 0 /\ Clamped(drv.lastT) = R(1) /\ drv.nCleanup = 0)
        => mob[1].position = <<RAdd(drv.pre[1].position[1], anim[Root].arg[1]),
                               RAdd(drv.pre[1].position[2], anim[Root].arg[2])>>

\* The target was moved twice after the construction, then setup(), a tick
\* before the end and tick(1).
C16_Witness ==
    /\ Len(anim) = 1 /\ anim[Root].kind = "MoveBy"
    /\ drv.nMove = 2 /\ drv.born[1].position # drv.pre[1].position
    /\ drv.nTick = 2 /\ drv.lastT = R(1) /\ drv.nCleanup = 0
    /\ mob[1].position # drv.pre[1].position

(***************************************************************************)
(* Properties of the easing functions                                      *)
(***************************************************************************)
\* A primitive alone has just been ticked at t, with any of the seven easings.
EasedAt(t) ==
    /\ Len(anim) = 1 /\ ~IsComposite(anim[Root]) /\ anim[Root].easing \in EasingNames
    /\ drv.nTick > 0 /\ drv.nCleanup = 0 /\ drv.lastT = t

\* C17: each of the seven easing functions returns 0 at t = 0 and 1 at t = 1.
C17_EasingEndpoints ==
    /\ EasedAt(R(0)) => drv.eased = R(0)
    /\ EasedAt(R(1)) => drv.eased = R(1)

(***************************************************************************)
(* Properties of the lifecycle in nested trees                             *)
(***************************************************************************)
\* C18: in a tree whose root is driven through setup(), ticks with
\* non-decreasing t and cleanup(), no node is set up twice, no node is ticked
\* before its setup(), no descendant is cleaned up twice, and once the root's
\* cleanup() has returned every node has been set up once and cleaned up once.
C18_EveryNodeSetUpOnceCleanedOnce ==
    drv.mono =>
        \A n \in Nodes :
            /\ obs[n].setups <= 1
            /\ obs[n].ticks > 0 => (obs[n].setups = 1 /\ obs[n].setupAt < obs[n].firstTickAt)
            /\ n # Root => obs[n].cleanups <= 1
            /\ drv.nCleanup >= 1 => (obs[n].setups = 1 /\ (n # Root => obs[n].cleanups = 1))
            /\ drv.nCleanup = 1 => obs[n].cleanups = 1

\* A nested tree after setup(), two ticks and cleanup(): a leaf of the inner
\* combinator was finished by a tick, another node only by the cleanup().
C18_Witness ==
    /\ Len(anim) = 5 /\ drv.mono /\ drv.nTick = 2 /\ drv.nCleanup = 1
    /\ obs[4].cleanupAt < obs[Root].cleanupAt
    /\ \E n \in Descendants : obs[n].cleanupAt > obs[Root].cleanupAt
    /\ \A n \in Nodes : obs[n].setups = 1 /\ obs[n].cleanups = 1

\* C19: in a Sequence or Parallel driven through setup(), ticks with
\* non-decreasing t and cleanup(), a child whose cleanup() has been invoked
\* has received its last tick before that cleanup().
C19_NoTickAfterChildCleanup ==
    drv.mono =>
        \A n \in Composites : \A c \in KidsOf(n) :
            obs[c].cleanups > 0 => obs[c].lastTickAt < obs[c].cleanupAt

(***************************************************************************)
(* Properties of Scene.play                                                *)
(***************************************************************************)
Played == {TopLevel(anim)[i] : i \in 1..Len(TopLevel(anim))}

\* C20: when play has returned, the last tick every played animation
\* received was a tick at 1 and came before its cleanup(), and the target of
\* every played primitive has the primitive's end value.
C20_PlayEndsWithTickOne ==
    drv.phase = "played" =>
        \A n \in Played :
            /\ obs[n].lastT = R(1)
            /\ obs[n].lastTickAt < obs[n].cleanupAt
            /\ anim[n].kind \in EndValueKinds
                   => AnimatedProperty(anim[n], mob[anim[n].target])
                          = EndValue(drv.built[n], drv.pre[anim[n].target])

\* The longest duration among the animations handed to play.
LongestPlayed ==
    CHOOSE d \in {anim[n].duration : n \in Played} : \A n \in Played : RLe(anim[n].duration, d)

\* ceil(maxDuration * fps)
FrameCount == Math_ceil(RMul(LongestPlayed, R(drv.fps)))

\* The calls play made on the animations handed to it, in order.
PlayedLog == SelectSeq(drv.log, LAMBDA c : c.n \in Played)

\* C21: play(a1..ak) first calls setup() once on every ai, in argument order
\* and before any tick; then for each frame f = 0 .. ceil(maxDuration*fps)-1
\* it ticks every ai in argument order with clamp((f/fps)/duration(ai), 0, 1);
\* then it calls cleanup() once on every ai; the tick arguments an animation
\* receives never decrease.
C21_PlayCallsInOrder ==
    drv.phase = "played" =>
        LET as == TopLevel(anim)
            k == Len(as)
        IN  /\ Len(PlayedLog) = k * (FrameCount + 2)
            /\ \A i \in 1..k : PlayedLog[i] = [op |-> "setup", n |-> as[i], t |-> R(0)]
            /\ \A f \in 0..(FrameCount - 1) : \A i \in 1..k :
                   PlayedLog[k + f * k + i]
                       = [op |-> "tick", n |-> as[i],
                          t |-> clamp(RDiv(Rat(f, drv.fps), anim[as[i]].duration), R(0), R(1))]
            /\ \A i \in 1..k :
                   PlayedLog[k * (FrameCount + 1) + i] = [op |-> "cleanup", n |-> as[i], t |-> R(0)]
            /\ \A n \in Played : obs[n].setups = 1 /\ obs[n].cleanups = 1
            /\ \A i, j \in 1..Len(PlayedLog) :
                   (i < j /\ PlayedLog[i].op = "tick" /\ PlayedLog[j].op = "tick"
                          /\ PlayedLog[i].n = PlayedLog[j].n)
                       => RLe(PlayedLog[i].t, PlayedLog[j].t)

\* Three animations of different durations played over at least three
\* frames: in one frame one of them is ticked inside (0, 1) and another,
\* already over, at 1.
C21_Witness ==
    /\ drv.phase = "played" /\ Len(TopLevel(anim)) = 3 /\ FrameCount >= 3
    /\ \E i, j \in 1..Len(PlayedLog) :
           /\ i < j /\ j - i < 3 /\ j < Len(PlayedLog) - 5
           /\ PlayedLog[i].op = "tick" /\ PlayedLog[j].op = "tick"
           /\ PlayedLog[i].t = R(1)
           /\ RLt(R(0), PlayedLog[j].t) /\ RLt(PlayedLog[j].t, R(1))

(***************************************************************************)
(* Properties of the order of calls inside one call on the root            *)
(***************************************************************************)
\* The positions in the log of the last call on the root of the calls of
\* method op on object n.
CallsOf(op, n) == {i \in 1..Len(drv.log) : drv.log[i].op = op /\ drv.log[i].n = n}
Last(S) == CHOOSE i \in S : \A j \in S : j <= i

\* The property of its target an animation of this class writes.
Property(a) ==
    CASE a.kind \in {"MoveTo", "MoveBy"} -> "position"
      [] a.kind \in {"RotateTo", "RotateBy"} -> "rotation"
      [] a.kind \in {"ScaleTo", "ScaleBy"} -> "scale"
      [] a.kind \in {"OpacityTo", "FadeIn", "FadeOut"} -> "opacity"
      [] a.kind = "FillColorTo" -> "fillColor"
      [] a.kind = "StrokeColorTo" -> "strokeColor"
      [] a.kind = "StrokeWidthTo" -> "strokeWidth"
      [] OTHER -> "none"

\* tick(t) of a writes to the target: every tick does, but that of a color
\* animation that cannot interpolate and has not reached the end.
Writes(a, t) ==
    ~(a.kind \in {"FillColorTo", "StrokeColorTo"} /\ ~a.canLerp /\ RLt(ease(a.easing, t), R(1)))

\* Children c, e of one Parallel, c declared before e, that are primitives
\* writing the same property of the same target.
Rivals(n, c, e) ==
    /\ n \in Parallels
    /\ \E i, j \in 1..Len(Kids(n)) : i < j /\ Kids(n)[i] = c /\ Kids(n)[j] = e
    /\ ~IsComposite(anim[c]) /\ ~IsComposite(anim[e])
    /\ anim[c].target = anim[e].target
    /\ Property(anim[c]) = Property(anim[e])

\* What e wrote in the last call on the root: its last tick, and its
\* cleanup() where that came after.
WrittenBy(e) ==
    LET t == drv.log[Last(CallsOf("tick", e))].t
        m == Primitive_tick(anim[e], drv.before[anim[e].target], t)
    IN  AnimatedProperty(anim[e],
                         IF \E i \in CallsOf("cleanup", e) : i > Last(CallsOf("tick", e))
                         THEN Primitive_cleanup(anim[e], m) ELSE m)

\* C22: when a tick of the root has ticked a Parallel two of whose children
\* write the same property of the same target, the earlier-declared of the
\* two was ticked, and cleaned if it finished, before the later-declared
\* was ticked, and where the later-declared wrote, the property holds the
\* value it wrote.
C22_LaterDeclaredChildWins ==
    (drv.phase = "running" /\ drv.nTick > 0) =>
        \A n \in Nodes : \A c, e \in Nodes :
            (Rivals(n, c, e) /\ CallsOf("tick", n) # {}) =>
                /\ CallsOf("tick", c) # {} /\ CallsOf("tick", e) # {}
                /\ \A i \in CallsOf("tick", c) \cup CallsOf("cleanup", c) :
                       \A j \in CallsOf("tick", e) \cup CallsOf("cleanup", e) : i < j
                /\ Writes(anim[e], drv.log[Last(CallsOf("tick", e))].t)
                       => AnimatedProperty(anim[e], mob[anim[e].target]) = WrittenBy(e)

\* A Parallel of two FillColorTo on one target, ticked when the first has
\* finished and the second has not: the first wrote its end color and was
\* cleaned up, and the fill is the color in between that the second wrote.
C22_Witness ==
    /\ drv.phase = "running" /\ drv.nTick > 0
    /\ \E n, c, e \in Nodes :
           /\ Rivals(n, c, e) /\ CallsOf("tick", n) # {}
           /\ CallsOf("cleanup", c) # {} /\ CallsOf("cleanup", e) = {}
           /\ Writes(anim[c], drv.log[Last(CallsOf("tick", c))].t)
           /\ Writes(anim[e], drv.log[Last(CallsOf("tick", e))].t)
           /\ mob[anim[e].target].fillColor \notin {anim[c].arg, anim[e].arg}
           /\ mob[anim[e].target].fillColor = WrittenBy(e)

(***************************************************************************)
(* Properties of playback that is abandoned                                *)
(***************************************************************************)
\* C23: setup(), ticks with non-decreasing t that all stop before 1, and
\* cleanup() leave every target as the same calls with a tick(1) before the
\* cleanup() leave it.
C23_AbandonedEqualsComplete ==
    (drv.nCleanup = 1 /\ drv.mono /\ RLt(drv.maxT, R(1))) => mob = drv.full

\* C24: once the cleanup() of a FadeOut that is a child of a Sequence or a
\* Parallel has been invoked, its target's opacity is 0 after every later
\* call on the composite (ticks with non-decreasing t, cleanup()).
C24_FadedOutStaysAtZero ==
    drv.mono =>
        \A n \in Composites : \A c \in KidsOf(n) :
            (anim[c].kind = "FadeOut" /\ obs[c].cleanups > 0)
                => mob[anim[c].target].opacity = R(0)

(***************************************************************************)
(* Properties of construction                                              *)
(***************************************************************************)
\* d is the greatest of the durations of the children of n.
GreatestOf(n, d) ==
    /\ \E c \in KidsOf(n) : anim[c].duration = d
    /\ \A c \in KidsOf(n) : RLe(anim[c].duration, d)

\* C25: in a tree as constructed, the duration of every Sequence is the sum
\* of the durations of its children and the duration of every Parallel is
\* the greatest of the durations of its children, composites among the
\* children or not.
C25_ConstructedDurationIsSumOrMax ==
    drv.phase = "built" =>
        /\ \A n \in Sequences : anim[n].duration = SumChild(anim, n)
        /\ \A n \in Parallels : GreatestOf(n, anim[n].duration)

\* A Sequence of a Parallel, whose children differ in duration and whose
\* second child is the shorter, and of a leaf.
C25_Witness ==
    /\ drv.phase = "built" /\ Len(anim) = 5
    /\ anim[Root].kind = "Sequence" /\ anim[2].kind = "Parallel"
    /\ anim[4].duration = R(3) /\ anim[5].duration = R(1) /\ anim[3].duration = R(3)
    /\ anim[2].duration = R(3) /\ anim[Root].duration = R(6)

(***************************************************************************)
(* Properties of the time mapping of a Sequence                            *)
(***************************************************************************)
\* e_i: the sum of the durations of the first i children of n (e_0 = 0).
End(n, i) == SumTo([j \in 1..Len(Kids(n)) |-> anim[Kids(n)[j]].duration], i)

\* The positions in the log, after position p, of the calls on children of n.
ChildCallsAfter(n, p) == {q \in (p + 1)..Len(drv.log) : drv.log[q].n \in KidsOf(n)}

\* C26: driven with non-decreasing t, a tick of a Sequence whose
\* tAbs = clamp(tNorm, 0, 1) * total is below the end of the last child makes
\* as its last call on a child the tick of the child i with
\* e_(i-1) <= tAbs < e_i, at local time (tAbs - e_(i-1)) / d_i, and makes no
\* call on a child after i.
C26_SequenceTicksTheCurrentChild ==
    (drv.phase = "running" /\ drv.nTick > 0 /\ drv.mono) =>
        \A n \in Sequences : \A p \in CallsOf("tick", n) :
            LET tAbs == RMul(Clamped(drv.log[p].t), anim[n].duration)
                k == Len(Kids(n))
            IN  RLt(tAbs, End(n, k)) =>
                    \E i \in 1..k :
                        /\ RLe(End(n, i - 1), tAbs) /\ RLt(tAbs, End(n, i))
                        /\ ChildCallsAfter(n, p) # {}
                        /\ drv.log[Last(ChildCallsAfter(n, p))]
                               = Call("tick", Kids(n)[i],
                                      RDiv(RSub(tAbs, End(n, i - 1)), anim[Kids(n)[i]].duration))
                        /\ \A q \in ChildCallsAfter(n, p) :
                               \A j \in (i + 1)..k : drv.log[q].n # Kids(n)[j]

\* A Sequence of three ticked once: the tick finished the first child and
\* ticked the second inside (0, 1); the third has received no call.
C26_Witness ==
    /\ drv.phase = "running" /\ drv.nTick = 1 /\ anim[Root].kind = "Sequence"
    /\ Len(Kids(Root)) = 3
    /\ obs[Kids(Root)[1]].cleanups = 1
    /\ obs[Kids(Root)[2]].ticks = 1
    /\ RLt(R(0), obs[Kids(Root)[2]].lastT) /\ RLt(obs[Kids(Root)[2]].lastT, R(1))
    /\ obs[Kids(Root)[3]].setups = 0
    /\ drv.log[Len(drv.log)].n = Kids(Root)[2]

\* Sequence n had, before the last call on the root, processed a tick at or
\* past the end of its last child (its total): a tick with tNorm >= 1.
HadEnded(n) == n \in Sequences /\ RGe(drv.was[n].maxT, R(1))

\* C27: a tick, with any argument, of a Sequence that has processed a tick
\* at or past the end of its last child makes no call on any child, and
\* where the Sequence is the root it leaves every Mobject as it was.
C27_EndedSequenceIgnoresTicks ==
    (drv.phase = "running" /\ drv.nTick > 0) =>
        \A n \in Nodes :
            (HadEnded(n) /\ CallsOf("tick", n) # {}) =>
                /\ ChildCallsAfter(n, 0) = {}
                /\ n = Root => (drv.log = <<Call("tick", Root, drv.lastT)>> /\ mob = drv.before)

\* A Sequence ticked beyond 1 and then ticked again inside (0, 1).
C27_Witness ==
    /\ drv.phase = "running" /\ drv.nTick = 2 /\ HadEnded(Root)
    /\ RGt(drv.was[Root].maxT, R(1))
    /\ RLt(R(0), drv.lastT) /\ RLt(drv.lastT, R(1))
    /\ drv.log = <<Call("tick", Root, drv.lastT)>>
    /\ \A c \in KidsOf(Root) : obs[c].cleanups = 1

(***************************************************************************)
(* Properties of setDuration and playback                                  *)
(***************************************************************************)
\* C28: after setDuration(s) with s > 0 on a Sequence, the duration of the
\* Sequence is s.
C28_SequenceDurationIsTheRequest ==
    (drv.nSetDur > 0 /\ anim[drv.lastN].kind = "Sequence" /\ RGt(drv.lastS, R(0)))
        => anim[drv.lastN].duration = drv.lastS

Leaves == Nodes \ Composites

\* C29: after setup() and tick(1) on the root of a tree, whatever
\* setDuration calls the root has received before, every leaf has been
\* ticked at 1 and cleaned up, and a cleanup() of the root that follows
\* makes no call on any other object.
C29_TickOneFinishesEveryLeaf ==
    /\ (drv.phase = "running" /\ drv.nTick >= 1) =>
           \A l \in Leaves : obs[l].ticks >= 1 /\ obs[l].lastT = R(1) /\ obs[l].cleanups = 1
    /\ (drv.phase = "done" /\ drv.nTick >= 1) => drv.log = <<Call("cleanup", Root, R(0))>>

\* C30: Sequence(a, b) taken through setup(), tick(1), cleanup() leaves
\* every Mobject as a.setup(), a.tick(1), a.cleanup() followed by b.setup(),
\* b.tick(1), b.cleanup() leave it.
C30_SequenceEqualsOneAfterTheOther ==
    (/\ anim[Root].kind = "Sequence" /\ Len(Kids(Root)) = 2
     /\ drv.nTick = 1 /\ drv.lastT = R(1) /\ drv.nCleanup = 1)
        => mob = drv.apart

\* A Sequence of two FillColorTo of one Mobject that had no fill, after
\* setup(), tick(1), cleanup(): the fill is the color of the second.
C30_Witness ==
    /\ anim[Root].kind = "Sequence" /\ Len(Kids(Root)) = 2
    /\ drv.nTick = 1 /\ drv.lastT = R(1) /\ drv.nCleanup = 1
    /\ anim[2].kind = "FillColorTo" /\ anim[3].kind = "FillColorTo"
    /\ anim[2].target = anim[3].target
    /\ drv.pre[1].fillColor = NullColor
    /\ mob[1].fillColor = Red
    /\ mob = drv.apart
===========================================================================
